---- MODULE Spec2Model ----
(***************************************************************************)
(* A state-machine model of the Digital Trading Store backend              *)
(* (src/main.py, src/schemas.py): registration and login, bearer-token     *)
(* identity resolution, the product catalogue with its startup seeding,    *)
(* orders, subscriptions and reviews, over a document store.               *)
(*                                                                         *)
(* Conventions.                                                            *)
(*  - An Optional[T] value is a set: None is {} and a present value v is   *)
(*    {v}.  A key that a document does not carry at all is a field that is *)
(*    not in the record's DOMAIN.                                          *)
(*  - An ObjectId is the record [coll, k]: the k-th identifier generated   *)
(*    for a collection (identifiers are unique across collections).  A     *)
(*    string a client sends as an id is [form, coll, k]: the 24 hex digits *)
(*    of that ObjectId written in lower case ("lower", what str() yields), *)
(*    with upper-case digits ("upper"), or text that is no ObjectId        *)
(*    ("bad").                                                             *)
(*  - Time is counted in minutes.  Money is counted in whole dollars.      *)
(*  - A response is [op, status, val]; status is "OK" or the error raised. *)
(***************************************************************************)
EXTENDS Integers, Sequences, FiniteSets, Bags, TLC

VARIABLES
    running,        \* the process is up (its startup event has run)
    db,             \* database.db is not None in the running process
    startups,       \* number of process starts so far
    now,            \* the clock, in minutes
    users,          \* collection "user", in storage order
    products,       \* collection "product"
    orders,         \* collection "order"
    subscriptions,  \* collection "subscription"
    reviews,        \* collection "review"
    inflight,       \* register requests past their email pre-check (a bag)
    issued,         \* tokens login has returned, with the user each was issued for
    accepted,       \* (email as sent, password) of every register call that succeeded
    created,        \* ids of the products create_product has returned
    last            \* the last response sent

vars == <<running, db, startups, now, users, products, orders, subscriptions,
          reviews, inflight, issued, accepted, created, last>>

---------------------------------------------------------------------------
(* Bounds of the model *)

MaxStartups == 2
MaxTicks == 2
MaxUsers == 2
MaxTokens == 1
MaxCreated == 2
MaxRecords == 2

---------------------------------------------------------------------------
(* Values *)

None == {}
Some(v) == {v}
Val(o) == CHOOSE v \in o : TRUE

Min(a, b) == IF a <= b THEN a ELSE b

MinutesPerDay == 24 * 60
ClockStep == MinutesPerDay

\* Emails a client may send.  The second differs from the first only in the
\* case of its domain.
EmailInputs == {"bob@shop.io", "bob@SHOP.io", "eve@shop.io"}
PasswordInputs == {"pw1", "pw2"}

\* pydantic's EmailStr accepts a well-formed address ...
IsEmail(s) == s \in EmailInputs \cup {"admin@shop.io"}
\* ... and yields it normalised: the domain in lower case, the local part as is.
EmailStr(s) == IF s = "bob@SHOP.io" THEN "bob@shop.io" ELSE s

\* ObjectId(s) raises unless s is 24 hex digits; it reads them in either case.
ObjectIdValid(s) == s.form # "bad"
ObjectId(s) == [coll |-> s.coll, k |-> s.k]
\* str(ObjectId): lower-case hex.
Str(oid) == [form |-> "lower", coll |-> oid.coll, k |-> oid.k]
Upper(oid) == [form |-> "upper", coll |-> oid.coll, k |-> oid.k]
BadId == [form |-> "bad", coll |-> "none", k |-> 0]
\* a well-formed id that no insert has ever generated
AbsentId == [form |-> "lower", coll |-> "none", k |-> 0]

---------------------------------------------------------------------------
(* Persistence gateway (database.py) and the pymongo calls main.py makes *)

\* insert_one: the document gets a fresh _id and goes last in storage order
CreateDocument(coll, docs, data) ==
    Append(docs, ("_id" :> [coll |-> coll, k |-> Len(docs) + 1]) @@ data)

InsertedId(coll, docs) == Str([coll |-> coll, k |-> Len(docs) + 1])

\* a filter is a record of the values a document must carry; <<>> is {}
Matches(doc, filter) ==
    \A key \in DOMAIN filter : key \in DOMAIN doc /\ doc[key] = filter[key]

\* find(filter).limit(limit): the first `limit` matching documents
GetDocuments(docs, filter, limit) ==
    LET hits == SelectSeq(docs, LAMBDA d : Matches(d, filter))
    IN  SubSeq(hits, 1, Min(limit, Len(hits)))

\* find_one(filter): the first matching document, or None
FindOne(docs, filter) ==
    LET hits == SelectSeq(docs, LAMBDA d : Matches(d, filter))
    IN  IF Len(hits) = 0 THEN None ELSE Some(hits[1])

CountDocuments(docs) == Len(docs)

---------------------------------------------------------------------------
(* Auth helpers *)

ACCESS_TOKEN_EXPIRE_MINUTES == 60 * 24

\* bcrypt is one-way; the hash stands for the password it was made from
get_password_hash(password) == [alg |-> "bcrypt", of |-> password]
verify_password(plain, hashed) == hashed.of = plain

\* a signed token: its claims, and whether its signature verifies under SECRET_KEY
create_access_token(sub, t) ==
    [sub |-> Some(sub), exp |-> t + ACCESS_TOKEN_EXPIRE_MINUTES, sig |-> TRUE]

\* jwt.decode: JWTError on a bad signature or an expiry in the past
JwtDecodeOk(token, t) == token.sig /\ ~(token.exp < t)

get_user_by_email(email, us) == FindOne(us, [email |-> email])

\* get_current_user: [status, user]
GetCurrentUser(token, us, dbOk, t) ==
    IF ~JwtDecodeOk(token, t) THEN [status |-> "InvalidCredentials", user |-> None]
    ELSE IF token.sub = None THEN [status |-> "InvalidCredentials", user |-> None]
    \* TokenData(email=email) raises pydantic's ValidationError, which the
    \* except JWTError clause does not catch
    ELSE IF ~IsEmail(Val(token.sub)) THEN [status |-> "ValidationError", user |-> None]
    ELSE IF ~dbOk THEN [status |-> "StorageUnavailable", user |-> None]
    ELSE LET user == get_user_by_email(EmailStr(Val(token.sub)), us)
         IN  IF user = None THEN [status |-> "InvalidCredentials", user |-> None]
             ELSE [status |-> "OK", user |-> user]

\* tokens a client may present that login did not issue: signed with the
\* (known default) secret, with a bad signature, or already expired
ForgedTokens ==
    {[sub |-> s, exp |-> now + ACCESS_TOKEN_EXPIRE_MINUTES, sig |-> TRUE] :
        s \in {None, Some("not-an-email"), Some("eve@shop.io")}}
    \cup {[sub |-> Some("bob@shop.io"), exp |-> now + ACCESS_TOKEN_EXPIRE_MINUTES, sig |-> FALSE],
          [sub |-> Some("bob@shop.io"), exp |-> now - 1, sig |-> TRUE]}

IssuedTokens == {i.token : i \in issued}
TokenInputs == IssuedTokens \cup ForgedTokens

Response(op, status, val) == [op |-> op, status |-> status, val |-> val]

\* orders, subscriptions and reviews stored so far
Records == Len(orders) + Len(subscriptions) + Len(reviews)

---------------------------------------------------------------------------
(* Schemas (schemas.py) *)

Kinds == {"ebook", "signal", "course", "bot"}
Intervals == {"week", "month", "year"}

\* Product: kind is one of the four literals, price >= 0, sale_price is None
\* or >= 0, interval is None or one of the three literals
ProductSchemaValid(p) ==
    /\ p.kind \in Kinds
    /\ p.price >= 0
    /\ \A v \in p.sale_price : v >= 0
    /\ p.interval \subseteq Intervals

\* Review: 1 <= rating <= 5
ReviewSchemaValid(r) == r.rating >= 1 /\ r.rating <= 5

\* Order: amount >= 0
OrderSchemaValid(o) == o.amount >= 0

Product(title, kind, price, sale_price, is_subscription, interval) ==
    [title |-> title, kind |-> kind, price |-> price, sale_price |-> sale_price,
     is_subscription |-> is_subscription, interval |-> interval]

---------------------------------------------------------------------------
(* Startup seeding *)

samples ==
    << Product("Forex Mastery eBook", "ebook", 49, Some(29), FALSE, None),
       Product("Premium Crypto Signals", "signal", 0, None, TRUE, Some("month")),
       Product("Advanced Forex Course", "course", 199, Some(149), FALSE, None),
       Product("AutoTrader Pro Bot", "bot", 0, None, TRUE, Some("month")) >>

RECURSIVE InsertAll(_, _, _)
\* for s in samples: create_document("product", s)
InsertAll(coll, docs, new) ==
    IF new = <<>> THEN docs
    ELSE InsertAll(coll, CreateDocument(coll, docs, Head(new)), Tail(new))

\* the guard without its emptiness test
SeedAlways(count) == count >= 0

SeedNeeded(count) == count = 0

seed_products_if_empty(dbOk, prods) ==
    IF ~dbOk THEN prods
    ELSE IF SeedNeeded(CountDocuments(prods)) THEN InsertAll("product", prods, samples)
    ELSE prods

\* A process start: database.db is set from the environment (cfg: whether
\* storage is configured), requests of the previous process are gone, and the
\* startup event runs before any request is served.
Startup(cfg) ==
    /\ startups < MaxStartups
    /\ startups' = startups + 1
    /\ running' = TRUE
    /\ db' = cfg
    /\ inflight' = EmptyBag
    /\ products' = seed_products_if_empty(cfg, products)
    /\ last' = Response("startup", "OK", None)
    /\ UNCHANGED <<now, users, orders, subscriptions, reviews, issued, accepted, created>>

Tick ==
    /\ now < MaxTicks * ClockStep
    /\ now' = now + ClockStep
    /\ UNCHANGED <<running, db, startups, users, products, orders, subscriptions,
                   reviews, inflight, issued, accepted, created, last>>

---------------------------------------------------------------------------
(* Registration and login *)

\* the role taken from elsewhere than the literal
RegisterRoleAdmin == "admin"

RegisterRole == "user"

\* register, lines 172-173: the email pre-check.  payload.email is the
\* EmailStr-normalised address.
RegisterCheck(name, email, password) ==
    /\ running
    /\ Len(users) + BagCardinality(inflight) < MaxUsers
    /\ IF ~db THEN
            /\ last' = Response("register", "StorageUnavailable", None)
            /\ UNCHANGED inflight
       ELSE IF get_user_by_email(EmailStr(email), users) # None THEN
            /\ last' = Response("register", "DuplicateEmail", None)
            /\ UNCHANGED inflight
       ELSE
            /\ inflight' = inflight (+) SetToBag({[name |-> name, email |-> EmailStr(email),
                                                  password |-> password, sent |-> email]})
            /\ UNCHANGED last
    /\ UNCHANGED <<running, db, startups, now, users, products, orders, subscriptions,
                   reviews, issued, accepted, created>>

\* register, lines 175-192: hash, insert, read back, respond
RegisterInsert(req) ==
    /\ running
    /\ BagIn(req, inflight)
    /\ inflight' = inflight (-) SetToBag({req})
    /\ users' = CreateDocument("user", users,
                    [name |-> req.name, email |-> req.email,
                     hashed_password |-> get_password_hash(req.password),
                     role |-> RegisterRole, avatar_url |-> None, is_active |-> TRUE])
    /\ accepted' = accepted \cup {[email |-> req.sent, password |-> req.password]}
    /\ last' = Response("register", "OK", Some(InsertedId("user", users)))
    /\ UNCHANGED <<running, db, startups, now, products, orders, subscriptions,
                   reviews, issued, created>>

\* login: the form's username is looked up as sent
LoginResult(username, password) ==
    IF ~db THEN Response("login", "StorageUnavailable", None)
    ELSE LET user == get_user_by_email(username, users)
         IN  IF user = None \/ ~verify_password(password, Val(user).hashed_password)
             THEN Response("login", "InvalidCredentials", None)
             ELSE Response("login", "OK", Some(create_access_token(Val(user).email, now)))

Login(username, password) ==
    LET res == LoginResult(username, password)
        grant == IF res.status = "OK"
                 THEN {[token |-> Val(res.val),
                        uid |-> Val(get_user_by_email(username, users))._id]}
                 ELSE {}
    IN  /\ running
        /\ Cardinality(issued \cup grant) <= MaxTokens
        /\ issued' = issued \cup grant
        /\ last' = res
        /\ UNCHANGED <<running, db, startups, now, users, products, orders, subscriptions,
                       reviews, inflight, accepted, created>>

\* me: the public projection of the resolved user
Me(token) ==
    LET auth == GetCurrentUser(token, users, db, now)
    IN  /\ running
        /\ last' = Response("me", auth.status, {u._id : u \in auth.user})
        /\ UNCHANGED <<running, db, startups, now, users, products, orders, subscriptions,
                       reviews, inflight, issued, accepted, created>>

---------------------------------------------------------------------------
(* Product catalogue *)

ListLimit == 100

\* ProductCreate bodies a client may send; the last breaks the Product schema
ProductInputs ==
    { Product("Promo eBook", "ebook", 49, Some(0), FALSE, None),
      Product("Weekly Signals", "signal", 5, None, TRUE, Some("week")),
      Product("Broken", "ebook", -1, None, FALSE, None) }

IsAdmin(user) == "role" \in DOMAIN user /\ user.role = "admin"

CreateProduct(token, payload) ==
    LET auth == GetCurrentUser(token, users, db, now)
    IN  /\ running
        /\ Cardinality(created) < MaxCreated
        /\ IF auth.status # "OK" THEN
                /\ last' = Response("create_product", auth.status, None)
                /\ UNCHANGED <<products, created>>
           ELSE IF ~IsAdmin(Val(auth.user)) THEN
                /\ last' = Response("create_product", "Forbidden", None)
                /\ UNCHANGED <<products, created>>
           ELSE IF ~ProductSchemaValid(payload) THEN
                /\ last' = Response("create_product", "ValidationError", None)
                /\ UNCHANGED <<products, created>>
           ELSE
                /\ products' = CreateDocument("product", products, payload)
                /\ created' = created \cup {InsertedId("product", products)}
                /\ last' = Response("create_product", "OK", Some(InsertedId("product", products)))
        /\ UNCHANGED <<running, db, startups, now, users, orders, subscriptions,
                       reviews, inflight, issued, accepted>>

\* the loop stopping one document short
RenameIdsOffByOne(docs) == [i \in 1..(Len(docs) - 1) |-> Str(docs[i]._id)]

\* each document with its _id surfaced as the string "id"
RenameIds(docs) == [i \in 1..Len(docs) |-> Str(docs[i]._id)]

ListProducts ==
    /\ running
    /\ last' = IF ~db THEN Response("list_products", "StorageUnavailable", <<>>)
               ELSE Response("list_products", "OK",
                             RenameIds(GetDocuments(products, <<>>, ListLimit)))
    /\ UNCHANGED <<running, db, startups, now, users, products, orders, subscriptions,
                   reviews, inflight, issued, accepted, created>>

\* product ids a client may send: those of the first four products as
\* listed, the first one in upper-case hex, a well-formed id of no product,
\* and text that is no id
ProductIdInputs ==
    {Str(products[i]._id) : i \in 1..Min(4, Len(products))}
    \cup {Upper(products[i]._id) : i \in 1..Min(1, Len(products))}
    \cup {AbsentId, BadId}

\* find_one with an empty filter
FindProductAny(oid) == FindOne(products, <<>>)

FindProduct(oid) == FindOne(products, [_id |-> oid])

---------------------------------------------------------------------------
(* Orders *)

\* Python truthiness of product.get(key): None and 0 are falsy
Truthy(o) == o # None /\ Val(o) # 0

GetPrice(product) == IF "price" \in DOMAIN product THEN Some(product.price) ELSE None
GetSalePrice(product) == IF "sale_price" \in DOMAIN product THEN product.sale_price ELSE None

\* float(product.get("sale_price") or product.get("price") or 0)
OrderAmount(product) ==
    IF Truthy(GetSalePrice(product)) THEN Val(GetSalePrice(product))
    ELSE IF Truthy(GetPrice(product)) THEN Val(GetPrice(product))
    ELSE 0

\* os.urandom(8).hex(): some 16 hex digits
RandomHex == {"0123456789abcdef", "fedcba9876543210"}

LicenseKeys(product) ==
    IF "kind" \in DOMAIN product /\ product.kind \in {"course", "bot"}
    THEN {Some(h) : h \in RandomHex}
    ELSE {None}

CreateOrder(token, product_id) ==
    LET auth == GetCurrentUser(token, users, db, now)
        product == FindProduct(ObjectId(product_id))
    IN  /\ running
        /\ Records < MaxRecords
        /\ IF auth.status # "OK" THEN
                /\ last' = Response("create_order", auth.status, None)
                /\ UNCHANGED orders
           ELSE IF ~ObjectIdValid(product_id) THEN
                /\ last' = Response("create_order", "InvalidReference", None)
                /\ UNCHANGED orders
           ELSE IF product = None THEN
                /\ last' = Response("create_order", "NotFound", None)
                /\ UNCHANGED orders
           ELSE \E key \in LicenseKeys(Val(product)) :
                LET order == [user_id |-> Str(Val(auth.user)._id),
                              product_id |-> product_id,
                              amount |-> OrderAmount(Val(product)),
                              currency |-> "USD", status |-> "paid",
                              license_key |-> key]
                IN  IF ~OrderSchemaValid(order) THEN
                        /\ last' = Response("create_order", "ValidationError", None)
                        /\ UNCHANGED orders
                    ELSE
                        /\ orders' = CreateDocument("order", orders, order)
                        /\ last' = Response("create_order", "OK", Some(InsertedId("order", orders)))
        /\ UNCHANGED <<running, db, startups, now, users, products, subscriptions,
                       reviews, inflight, issued, accepted, created>>

---------------------------------------------------------------------------
(* Subscriptions *)

IsSubscription(product) == "is_subscription" \in DOMAIN product /\ product.is_subscription

\* product.get("interval"): no default
GetIntervalNoDefault(product) == IF "interval" \in DOMAIN product THEN product.interval ELSE None

\* product.get("interval", "month"): the default stands in only for a missing key
GetInterval(product) == IF "interval" \in DOMAIN product THEN product.interval ELSE Some("month")

\* timedelta(days=30 if interval == "month" else 7 if interval == "week" else 365)
PeriodDays(interval) ==
    IF interval = Some("month") THEN 30 ELSE IF interval = Some("week") THEN 7 ELSE 365

CreateSubscription(token, product_id) ==
    LET auth == GetCurrentUser(token, users, db, now)
        product == FindProduct(ObjectId(product_id))
    IN  /\ running
        /\ Records < MaxRecords
        /\ IF auth.status # "OK" THEN
                /\ last' = Response("create_subscription", auth.status, None)
                /\ UNCHANGED subscriptions
           ELSE IF ~ObjectIdValid(product_id) THEN
                /\ last' = Response("create_subscription", "InvalidReference", None)
                /\ UNCHANGED subscriptions
           ELSE IF product = None \/ ~IsSubscription(Val(product)) THEN
                /\ last' = Response("create_subscription", "NotSubscribable", None)
                /\ UNCHANGED subscriptions
           ELSE
                /\ subscriptions' = CreateDocument("subscription", subscriptions,
                        [user_id |-> Str(Val(auth.user)._id),
                         product_id |-> product_id,
                         status |-> "active",
                         started_at |-> Some(now),
                         current_period_end |->
                            Some(now + PeriodDays(GetInterval(Val(product))) * MinutesPerDay)])
                /\ last' = Response("create_subscription", "OK",
                                    Some(InsertedId("subscription", subscriptions)))
        /\ UNCHANGED <<running, db, startups, now, users, products, orders,
                       reviews, inflight, issued, accepted, created>>

---------------------------------------------------------------------------
(* Reviews *)

\* ReviewCreate.rating is any int
RatingInputs == {0, 3, 6}

AddReview(token, product_id, rating) ==
    LET auth == GetCurrentUser(token, users, db, now)
        product == FindProduct(ObjectId(product_id))
        review == [user_id |-> Str(Val(auth.user)._id), product_id |-> product_id,
                   rating |-> rating, comment |-> None]
    IN  /\ running
        /\ Records < MaxRecords
        /\ IF auth.status # "OK" THEN
                /\ last' = Response("add_review", auth.status, None)
                /\ UNCHANGED reviews
           ELSE IF ~ObjectIdValid(product_id) THEN
                /\ last' = Response("add_review", "InvalidReference", None)
                /\ UNCHANGED reviews
           ELSE IF product = None THEN
                /\ last' = Response("add_review", "NotFound", None)
                /\ UNCHANGED reviews
           ELSE IF ~ReviewSchemaValid(review) THEN
                /\ last' = Response("add_review", "ValidationError", None)
                /\ UNCHANGED reviews
           ELSE
                /\ reviews' = CreateDocument("review", reviews, review)
                /\ last' = Response("add_review", "OK", Some(InsertedId("review", reviews)))
        /\ UNCHANGED <<running, db, startups, now, users, products, orders,
                       subscriptions, inflight, issued, accepted, created>>

---------------------------------------------------------------------------
(* Specifications *)

\* An empty store, before the first process start
Init ==
    /\ running = FALSE
    /\ db = FALSE
    /\ startups = 0
    /\ now = 0
    /\ users = <<>>
    /\ products = <<>>
    /\ orders = <<>>
    /\ subscriptions = <<>>
    /\ reviews = <<>>
    /\ inflight = EmptyBag
    /\ issued = {}
    /\ accepted = {}
    /\ created = {}
    /\ last = Response("none", "OK", None)

\* The whole API over a store that starts empty, process starts included
Next ==
    \/ \E cfg \in BOOLEAN : Startup(cfg)
    \/ RegisterCheck("Bob", "bob@shop.io", "pw1")
    \/ \E req \in BagToSet(inflight) : RegisterInsert(req)
    \/ Login("bob@shop.io", "pw1")
    \/ \E token \in TokenInputs, payload \in ProductInputs : CreateProduct(token, payload)
    \/ ListProducts
    \/ \E token \in IssuedTokens, pid \in {Str(products[i]._id) : i \in 1..Min(2, Len(products))} :
            \/ CreateOrder(token, pid)
            \/ CreateSubscription(token, pid)
            \/ AddReview(token, pid, 3)

Spec == Init /\ [][Next]_vars

\* A process that has started on a configured, empty store: its startup event
\* has seeded the catalogue
InitRunning ==
    /\ running = TRUE
    /\ db = TRUE
    /\ startups = 1
    /\ now = 0
    /\ users = <<>>
    /\ products = seed_products_if_empty(TRUE, <<>>)
    /\ orders = <<>>
    /\ subscriptions = <<>>
    /\ reviews = <<>>
    /\ inflight = EmptyBag
    /\ issued = {}
    /\ accepted = {}
    /\ created = {}
    /\ last = Response("startup", "OK", None)

\* Registration, login and identity resolution, with concurrent requests and
\* the clock
NextAuth ==
    \/ Tick
    \/ \E email \in EmailInputs, password \in PasswordInputs : RegisterCheck("Bob", email, password)
    \/ \E req \in BagToSet(inflight) : RegisterInsert(req)
    \/ \E email \in EmailInputs, password \in PasswordInputs : Login(email, password)
    \/ \E token \in TokenInputs : Me(token)

SpecAuth == InitRunning /\ [][NextAuth]_vars

\* A running service with one registered user
InitRecords ==
    /\ running = TRUE
    /\ db = TRUE
    /\ startups = 1
    /\ now = ClockStep
    /\ users = CreateDocument("user", <<>>,
                    [name |-> "Bob", email |-> "bob@shop.io",
                     hashed_password |-> get_password_hash("pw1"),
                     role |-> RegisterRole, avatar_url |-> None, is_active |-> TRUE])
    /\ products = seed_products_if_empty(TRUE, <<>>)
    /\ orders = <<>>
    /\ subscriptions = <<>>
    /\ reviews = <<>>
    /\ inflight = EmptyBag
    /\ issued = {}
    /\ accepted = {[email |-> "bob@shop.io", password |-> "pw1"]}
    /\ created = {}
    /\ last = Response("register", "OK", Some(InsertedId("user", <<>>)))

\* Orders, subscriptions and reviews
NextRecords ==
    \/ Login("bob@shop.io", "pw1")
    \/ \E token \in TokenInputs, pid \in ProductIdInputs : CreateOrder(token, pid)
    \/ \E token \in TokenInputs, pid \in ProductIdInputs : CreateSubscription(token, pid)
    \/ \E token \in TokenInputs, pid \in ProductIdInputs, rating \in RatingInputs :
            AddReview(token, pid, rating)

SpecRecords == InitRecords /\ [][NextRecords]_vars

\* A store in service: an administrator's account, provisioned outside the API
\* (register only creates role "user"), and a catalogue one short of the
\* listing cap.  Its first document was written by a tool that set neither
\* price, sale_price nor interval; the third has a null interval.
ProvisionedUsers ==
    CreateDocument("user", <<>>,
        [name |-> "Admin", email |-> "admin@shop.io",
         hashed_password |-> get_password_hash("pw1"),
         role |-> "admin", avatar_url |-> None, is_active |-> TRUE])

ProvisionedProducts ==
    InsertAll("product", <<>>,
        << [title |-> "Legacy Signals", kind |-> "signal", is_subscription |-> TRUE],
           Product("Yearly Signals", "signal", 99, None, TRUE, Some("year")),
           Product("Open Signals", "signal", 9, None, TRUE, None),
           Product("Monthly Bot", "bot", 19, Some(15), TRUE, Some("month")) >>
        \o [i \in 1..(ListLimit - 5) |-> Product("eBook", "ebook", 10, None, FALSE, None)])

InitProvisioned ==
    /\ running = TRUE
    /\ db = TRUE
    /\ startups = 1
    /\ now = ClockStep
    /\ users = ProvisionedUsers
    /\ products = ProvisionedProducts
    /\ orders = <<>>
    /\ subscriptions = <<>>
    /\ reviews = <<>>
    /\ inflight = EmptyBag
    /\ issued = {}
    /\ accepted = {}
    /\ created = {}
    /\ last = Response("startup", "OK", None)

\* ids of the first four products and of the newest, as listed
CatalogueIdInputs ==
    {Str(products[i]._id) : i \in (1..Min(4, Len(products))) \cup ({Len(products)} \ {0})}

NextProvisioned ==
    \/ Login("admin@shop.io", "pw1")
    \/ \E token \in TokenInputs, payload \in ProductInputs : CreateProduct(token, payload)
    \/ ListProducts
    \/ \E token \in IssuedTokens, pid \in CatalogueIdInputs : CreateOrder(token, pid)
    \/ \E token \in IssuedTokens, pid \in CatalogueIdInputs : CreateSubscription(token, pid)

SpecProvisioned == InitProvisioned /\ [][NextProvisioned]_vars

---------------------------------------------------------------------------
(* Claims about registration, login and identity resolution (SpecAuth) *)

NoDuplicateEmails ==
    \A i, j \in 1..Len(users) : users[i].email = users[j].email => i = j

\* C1: once a register call with an email has succeeded, a register call with
\* the same email fails with DuplicateEmail and stores nothing, and a login
\* with that email and the first call's password succeeds with a token whose
\* subject is that email (calls one after the other: no email is stored twice).
C1_RegisterTwiceThenLogin ==
    [][ /\ \A e \in EmailInputs, pw \in PasswordInputs :
            (RegisterCheck("Bob", e, pw) /\ \E a \in accepted : a.email = e)
            => /\ last'.op = "register" /\ last'.status = "DuplicateEmail"
               /\ users' = users /\ inflight' = inflight
        /\ \A e \in EmailInputs, pw \in PasswordInputs :
            (/\ Login(e, pw)
             /\ [email |-> e, password |-> pw] \in accepted
             /\ NoDuplicateEmails)
            => /\ last'.status = "OK"
               /\ Val(last'.val).sub = Some(e)
      ]_vars

\* C2: no two stored users have the same email, concurrent register requests
\* included.
C2_EmailUnique == NoDuplicateEmails

\* C6: a token login issued for user A resolves to A and to no other user; a
\* token whose expiry has passed, whose subject is absent or whose subject
\* matches no stored user fails with InvalidCredentials.
C6_TokenResolution ==
    [][ \A token \in TokenInputs :
            Me(token)
            => /\ \A i \in issued :
                    (i.token = token /\ last'.status = "OK") => last'.val = {i.uid}
               /\ \A i \in issued :
                    (i.token = token /\ ~(token.exp < now)) => last'.status = "OK"
               /\ token.exp < now => last'.status = "InvalidCredentials"
               /\ (token.sub = None \/ ~\E i \in 1..Len(users) : Some(users[i].email) = token.sub)
                    => last'.status = "InvalidCredentials"
      ]_vars

---------------------------------------------------------------------------
(* Claims about the whole API over a store that starts empty (Spec) *)

Seeded == InsertAll("product", <<>>, samples)

\* C7: a startup inserts exactly the 4 samples when the product collection is
\* empty and storage is configured, and nothing otherwise; so with no other
\* product write, once a startup has run with storage configured the
\* collection holds exactly the 4 samples, however many startups follow.
C7_SeedingIdempotent ==
    [][ /\ \A cfg \in BOOLEAN :
            Startup(cfg)
            => IF cfg /\ Len(products) = 0
               THEN /\ Len(products') = 4
                    /\ \A i \in 1..4 : products'[i].title = samples[i].title
               ELSE products' = products
        /\ (running' /\ db') => products' = Seeded
        /\ products' \in {<<>>, Seeded}
      ]_vars

C7_Witness ==
    /\ last.op = "startup"
    /\ startups = 2
    /\ db
    /\ products = Seeded

\* C10: from an empty user collection, every stored user has role "user";
\* every create_product call fails and leaves the product collection
\* unchanged, with Forbidden whenever the caller's identity resolved; and the
\* product collection only ever holds the seeded products.
C10_NoAdminFromApi ==
    [][ /\ \A i \in 1..Len(users') : users'[i].role = "user"
        /\ \A token \in TokenInputs, payload \in ProductInputs :
            CreateProduct(token, payload)
            => /\ last'.status # "OK"
               /\ products' = products
               /\ GetCurrentUser(token, users, db, now).status = "OK"
                    => last'.status = "Forbidden"
        /\ \A i \in 1..Len(products') : \E j \in 1..Len(samples) :
                products'[i].title = samples[j].title
        /\ created' = {}
      ]_vars

C10_Witness ==
    /\ last.op = "create_product"
    /\ last.status = "Forbidden"
    /\ Len(users) > 0
    /\ products = Seeded

---------------------------------------------------------------------------
(* Claims about orders, subscriptions and reviews (SpecRecords) *)

Resolved(token) == GetCurrentUser(token, users, db, now).status = "OK"

RefersToProduct(doc, prods) ==
    /\ ObjectIdValid(doc.product_id)
    /\ \E i \in 1..Len(prods) : prods[i]._id = ObjectId(doc.product_id)

\* C8: every stored order, subscription and review has a product_id that
\* identifies a product stored when the record was created; create_order and
\* add_review store nothing and fail with InvalidReference for a malformed id
\* and NotFound for an id of no product; create_subscription stores nothing
\* for a malformed id, a missing product or a product that is no subscription.
C8_ReferencesExist ==
    [][ /\ orders' # orders => RefersToProduct(orders'[Len(orders')], products)
        /\ subscriptions' # subscriptions
            => RefersToProduct(subscriptions'[Len(subscriptions')], products)
        /\ reviews' # reviews => RefersToProduct(reviews'[Len(reviews')], products)
        /\ \A i \in 1..Len(orders') : RefersToProduct(orders'[i], products')
        /\ \A i \in 1..Len(subscriptions') : RefersToProduct(subscriptions'[i], products')
        /\ \A i \in 1..Len(reviews') : RefersToProduct(reviews'[i], products')
        /\ last'.op = "create_order"
            => \A token \in TokenInputs, pid \in ProductIdInputs :
                (CreateOrder(token, pid) /\ Resolved(token))
                => /\ ~ObjectIdValid(pid)
                        => last'.status = "InvalidReference" /\ orders' = orders
                   /\ (ObjectIdValid(pid) /\ FindOne(products, [_id |-> ObjectId(pid)]) = None)
                        => last'.status = "NotFound" /\ orders' = orders
        /\ last'.op = "create_subscription"
            => \A token \in TokenInputs, pid \in ProductIdInputs :
                (CreateSubscription(token, pid) /\ Resolved(token))
                => ((\/ ~ObjectIdValid(pid)
                     \/ \A i \in 1..Len(products) :
                          products[i]._id = ObjectId(pid) => ~IsSubscription(products[i]))
                    => (subscriptions' = subscriptions /\ last'.status # "OK"))
        /\ last'.op = "add_review"
            => \A token \in TokenInputs, pid \in ProductIdInputs, rating \in RatingInputs :
                (AddReview(token, pid, rating) /\ Resolved(token))
                => /\ ~ObjectIdValid(pid)
                        => last'.status = "InvalidReference" /\ reviews' = reviews
                   /\ (ObjectIdValid(pid) /\ FindOne(products, [_id |-> ObjectId(pid)]) = None)
                        => last'.status = "NotFound" /\ reviews' = reviews
      ]_vars

C8_Witness ==
    /\ last.op = "create_order"
    /\ last.status = "NotFound"
    /\ \E i \in 1..Len(reviews) : reviews[i].product_id.form = "upper"

\* C9: an add_review request of an authenticated actor with a rating outside
\* 1..5 is answered ValidationError whatever the product_id (malformed, of no
\* product, of a product), never InvalidReference or NotFound, and stores no
\* review.
C9_RatingValidatedFirst ==
    [][ \A token \in TokenInputs, pid \in ProductIdInputs, rating \in RatingInputs :
            (AddReview(token, pid, rating) /\ Resolved(token) /\ ~(rating >= 1 /\ rating <= 5))
            => last'.status = "ValidationError" /\ reviews' = reviews
      ]_vars

---------------------------------------------------------------------------
(* Claims about a store in service (SpecProvisioned) *)

Listed(id, listing) == \E i \in 1..Len(listing) : listing[i] = id

AdminCallSucceeds ==
    last'.op = "create_product" =>
    \A token \in TokenInputs, payload \in ProductInputs :
        (/\ Resolved(token)
         /\ Val(GetCurrentUser(token, users, db, now).user).role = "admin"
         /\ ProductSchemaValid(payload)
         /\ CreateProduct(token, payload))
        => /\ last'.status = "OK"
           /\ Len(products') = Len(products) + 1
           /\ last'.val = Some(Str(products'[Len(products')]._id))
           /\ products'[Len(products')].title = payload.title

\* C3 as stated: create_product by an admin with a valid payload succeeds and
\* returns an id, and every later list_products result holds the product with
\* that id, whatever number of products the collection already held.
C3_CreatedProductListed ==
    [][ /\ AdminCallSucceeds
        /\ (last'.op = "list_products" /\ ListProducts)
            => \A id \in created : Listed(id, last'.val)
      ]_vars

\* C3 as amended: create_product by an admin with a valid payload succeeds and
\* returns an id, and every later list_products result holds the product with
\* that id provided the collection held fewer than ListLimit (100) products
\* when the product was inserted.
C3_CreatedProductListedWithinCap ==
    [][ /\ AdminCallSucceeds
        /\ (last'.op = "list_products" /\ ListProducts)
            => \A i \in 1..Len(products) :
                (Str(products[i]._id) \in created /\ i - 1 < ListLimit)
                => Listed(Str(products[i]._id), last'.val)
      ]_vars

C3_Witness ==
    /\ last.op = "list_products"
    /\ last.status = "OK"
    /\ \E id \in created : Listed(id, last.val)
    /\ \E id \in created : ~Listed(id, last.val)

\* C4: create_order stores an order whose amount is the product's sale_price
\* whenever sale_price is present, 0 included; the product's price only when
\* sale_price is absent; and 0 only when both are absent.
C4_OrderAmount ==
    [][ (last'.op = "create_order" /\ last'.status = "OK") =>
        \A token \in IssuedTokens, pid \in CatalogueIdInputs :
            CreateOrder(token, pid)
            => LET product == Val(FindOne(products, [_id |-> ObjectId(pid)]))
                   sale == IF "sale_price" \in DOMAIN product THEN product.sale_price ELSE None
                   price == IF "price" \in DOMAIN product THEN Some(product.price) ELSE None
               IN  /\ Len(orders') = Len(orders) + 1
                   /\ orders'[Len(orders')].amount =
                        IF sale # None THEN Val(sale)
                        ELSE IF price # None THEN Val(price) ELSE 0
      ]_vars

\* create_subscription on a subscription product stores an active subscription
\* whose period is 30 days for "month", 7 for "week", `missing` when the
\* product has no interval field and 365 in every other case
SubscriptionStored(missing) ==
    last'.op = "create_subscription" =>
    \A token \in IssuedTokens, pid \in CatalogueIdInputs :
        (/\ Resolved(token)
         /\ ObjectIdValid(pid)
         /\ \E i \in 1..Len(products) :
                products[i]._id = ObjectId(pid) /\ IsSubscription(products[i])
         /\ CreateSubscription(token, pid))
        => LET product == Val(FindOne(products, [_id |-> ObjectId(pid)]))
               sub == subscriptions'[Len(subscriptions')]
           IN  /\ last'.status = "OK"
               /\ Len(subscriptions') = Len(subscriptions) + 1
               /\ sub.status = "active"
               /\ sub.started_at = Some(now)
               /\ sub.current_period_end =
                    Some(now + MinutesPerDay *
                        (IF "interval" \notin DOMAIN product THEN missing
                         ELSE IF product.interval = Some("month") THEN 30
                         ELSE IF product.interval = Some("week") THEN 7
                         ELSE 365))

\* C5 as stated: for a product with is_subscription true, create_subscription
\* stores an active subscription with current_period_end = started_at + 30
\* days for interval "month", + 7 days for "week" and + 365 days in every
\* other case, a null interval and a missing interval field included.
C5_PeriodEnd ==
    [][SubscriptionStored(365)]_vars

\* C5 as amended: ... + 30 days for interval "month" and when the product
\* document has no interval field, + 7 days for "week", and + 365 days in
\* every other case, a null interval included.
C5_PeriodEndMissingIsMonth ==
    [][SubscriptionStored(30)]_vars

C5_Witness ==
    \E i \in 1..Len(subscriptions), j \in 1..Len(products) :
        /\ products[j]._id = ObjectId(subscriptions[i].product_id)
        /\ "interval" \notin DOMAIN products[j]
        /\ subscriptions[i].current_period_end = Some(Val(subscriptions[i].started_at) + 30 * MinutesPerDay)

====
